---- MODULE Spec2Model ----
(***************************************************************************)
(* Model of porkbun_domain_mcp: the retrying API client                    *)
(* (client.py), the error type (models.py), the settings it reads          *)
(* (config.py) and the five MCP tools wrapping it (tools/domain_tools.py). *)
(*                                                                         *)
(* Conventions.                                                            *)
(*  - A Python string is a sequence of string pieces whose concatenation   *)
(*    is the string (f"HTTP {code}: {text}" is <<"HTTP ", code, ": ",      *)
(*    text>>); the envelope status is kept character by character so that  *)
(*    str.upper() is computed.                                             *)
(*  - A JSON value is a tagged record: JAbsent (key not in the object),    *)
(*    JNull, JStr(s).                                                      *)
(*  - Python None is None, a present value v is Some(v).                   *)
(*  - Delays are in milliseconds (0.5 s = 500).                            *)
(*  - An atomic step of the model is what one coroutine runs between two   *)
(*    suspension points (awaiting the network, asyncio.sleep, aclose).     *)
(***************************************************************************)
EXTENDS Integers, Sequences, FiniteSets, TLC

VARIABLES
    settings,   \* PorkbunDomainSettings: max_retries, api_key, secret_key, and
                \* the logger config.py provides (logging)
    concurrent, \* FALSE: operations and close() run one after another
    client,     \* PorkbunDomainClient._client: 0 (None) or a handle id
    created,    \* number of httpx.AsyncClient objects constructed so far
    closed,     \* handles whose aclose() has been started
    closing,    \* per close() call: the handle it is suspended on in aclose(), or 0
    lastEvent,  \* what the last step did to the handle
    inv         \* the tool invocations: one record per task

vars == <<settings, concurrent, client, created, closed, closing, lastEvent, inv>>

-----------------------------------------------------------------------------
(* Bounds of the model *)

MaxListing == 2
MaxHandles == 2

(* Program constants *)

MaxRetriesLimit == 5
BackoffBaseMs == 500
NotFoundStatus == 404

-----------------------------------------------------------------------------
(* Python and JSON values *)

None == [isNone |-> TRUE]
Some(v) == [isNone |-> FALSE, v |-> v]

JAbsent == [t |-> "absent"]
JNull == [t |-> "null"]
JStr(s) == [t |-> "str", s |-> s]

NoHandle == 0

Range(s) == {s[i] : i \in DOMAIN s}

\* whether a Python string (a sequence of pieces) is ""
IsEmptyStr(p) == \A i \in DOMAIN p : p[i] = ""

\* str.upper() on one character of the alphabet the statuses are written in
UpperChar(c) ==
    CASE c = "s" -> "S"
      [] c = "u" -> "U"
      [] c = "c" -> "C"
      [] c = "e" -> "E"
      [] c = "r" -> "R"
      [] c = "o" -> "O"
      [] OTHER -> c

\* str.upper()
Upper(s) == [i \in DOMAIN s |-> UpperChar(s[i])]

SUCCESS == <<"S", "U", "C", "C", "E", "S", "S">>

\* dict.get(key, default) on a JSON object field: the default only when the
\* key is absent (a null value is returned as None)
DictGet(field, default) == IF field.t = "absent" THEN default ELSE field

\* str(x) of a value read from the JSON body: a str is itself, None is "None"
PyStr(v) == IF v.t = "str" THEN v.s ELSE <<"None">>

-----------------------------------------------------------------------------
(* What the remote API can answer: the inputs of the model *)

DomainNames == {<<"example.com">>, <<"Example.com">>, <<"other.net">>}
ListedNames == {<<"example.com">>, <<"Example.com">>}
ExpireDates == {<<"2026-01-01">>, <<"2027-01-01">>}

\* one element of the "domains" array of a listing
DomainItem(name, expire) ==
    [domain |-> JStr(name), status |-> JStr(<<"ACTIVE">>), tld |-> JStr(<<"com">>),
     expire_date |-> JStr(expire)]

\* an element without the required "tld" key
InvalidItem ==
    [domain |-> JStr(<<"example.com">>), status |-> JStr(<<"ACTIVE">>),
     tld |-> JAbsent, expire_date |-> JAbsent]

DomainItems == {DomainItem(n, e) : n \in ListedNames, e \in ExpireDates}

SeqsUpTo(S, n) == UNION {[1..k -> S] : k \in 0..n}

Listings == SeqsUpTo(DomainItems, MaxListing) \cup {<<InvalidItem>>}

JList(items) == [t |-> "list", items |-> items]
JObject(m) == [t |-> "object", m |-> m]

PriceEntry(tld, price) ==
    [tld |-> tld, registration |-> JStr(<<price>>), renewal |-> JStr(<<price>>),
     transfer |-> JAbsent]

ComEntry == PriceEntry(JStr(<<"com">>), "9.13")
NetEntry == PriceEntry(JStr(<<"net">>), "11.48")
\* an entry without the required "tld" key
BareEntry == PriceEntry(JAbsent, "9.13")

\* the "pricing" object of a pricing answer: TLD -> entry
EmptyMap == [k \in {} |-> ComEntry]

PricingMaps ==
    { EmptyMap,
      [k \in {<<"com">>} |-> ComEntry],
      [k \in {<<"net">>} |-> NetEntry],
      [k \in {<<"com">>, <<"net">>} |-> IF k = <<"com">> THEN ComEntry ELSE NetEntry],
      [k \in {<<"com">>} |-> BareEntry] }

StatusValues ==
    { JAbsent, JNull, JStr(SUCCESS), JStr(<<"s", "u", "c", "c", "e", "s", "s">>),
      JStr(<<"E", "R", "R", "O", "R">>), JStr(<<>>) }

MessageValues == {JAbsent, JNull, JStr(<<"">>), JStr(<<"Invalid domain.">>)}

Envelope(status, message, domains, auth_code, pricing) ==
    [json |-> "object", status |-> status, message |-> message,
     domains |-> domains, auth_code |-> auth_code, pricing |-> pricing]

\* bodies that carry only the envelope
EnvelopeBodies ==
    {Envelope(s, m, JAbsent, JAbsent, JAbsent) : s \in StatusValues, m \in MessageValues}

ListingBodies ==
    {Envelope(JStr(SUCCESS), JAbsent, JList(l), JAbsent, JAbsent) : l \in Listings}
        \cup {Envelope(JStr(SUCCESS), JAbsent, JNull, JAbsent, JAbsent)}

AuthCodeBodies ==
    {Envelope(JStr(SUCCESS), JAbsent, JAbsent, c, JAbsent) :
        c \in {JNull, JStr(<<"">>), JStr(<<"EPP-5f2a">>)}}

PricingBodies ==
    {Envelope(JStr(SUCCESS), JAbsent, JAbsent, JAbsent, JObject(m)) : m \in PricingMaps}

\* a body that is not JSON, and a JSON body that is an array
UnparsedBodies == {[json |-> "invalid"], [json |-> "array"]}

Bodies == EnvelopeBodies \cup ListingBodies \cup AuthCodeBodies \cup PricingBodies
              \cup UnparsedBodies

SuccessCodes == {200, 201}
FailureCodes == {302, 503}
FailureTexts == {<<"">>, <<"Service Unavailable">>}
TransportTexts == {<<"">>, <<"All connection attempts failed">>}

\* httpx.RequestError raised by the send: no response at all
TransportError(text) == [kind |-> "transport", text |-> text]
\* a response: its status code, its text (kept for the failures) and its body
HttpResponse(code, text, body) == [kind |-> "http", code |-> code, text |-> text, body |-> body]

FailureResponses ==
    {TransportError(t) : t \in TransportTexts}
        \cup {HttpResponse(c, t, [json |-> "invalid"]) : c \in FailureCodes, t \in FailureTexts}

\* the envelope-only bodies come with either 2xx code, the others with 200
Responses ==
    FailureResponses
        \cup {HttpResponse(c, <<"body">>, b) : c \in SuccessCodes, b \in EnvelopeBodies}
        \cup {HttpResponse(200, <<"body">>, b) : b \in Bodies \ EnvelopeBodies}

-----------------------------------------------------------------------------
(* models.py: PorkbunError, and the other exceptions that can be raised *)

EmptyDict == [json |-> "empty"]

\* PorkbunError.__init__(message, status=None, details=None)
PorkbunError(message, status, details) ==
    [type |-> "PorkbunError", message |-> message, status |-> status,
     details |-> IF details = None THEN EmptyDict ELSE details.v]

\* an exception of another class, with the text str(e) gives
OtherError(type, text) ==
    [type |-> type, message |-> JStr(text), status |-> None, details |-> EmptyDict]

\* str(e): Exception.__str__ with the single argument `message`
StrOfError(e) == PyStr(e.message)

Return(value) == [k |-> "return", value |-> value]
Raise(exc) == [k |-> "raise", exc |-> exc]
Sleep(delay) == [k |-> "sleep", delay |-> delay]

-----------------------------------------------------------------------------
(* config.py: PorkbunDomainSettings *)

ApiKey == <<"pk1_key">>
SecretKey == <<"sk1_secret">>

\* max_retries: int = Field(default=3, ge=0, le=5)
MaxRetriesValues == 0..MaxRetriesLimit

\* mutant: the two keys change places
auth_payload_swapped(s) == [apikey |-> s.secret_key, secretapikey |-> s.api_key]

\* PorkbunDomainSettings.auth_payload
auth_payload(s) == [apikey |-> s.api_key, secretapikey |-> s.secret_key]

-----------------------------------------------------------------------------
(* config.py: the logger *)

\* settings.logging is "structured" when oneiric is importable: its logger
\* accepts keyword arguments. Otherwise (except ImportError) the logger is a
\* stdlib logging.Logger, and settings.logging is its effective level: a call
\* logger.<level>(msg, key=value) then raises TypeError when <level> is
\* enabled, and does nothing when it is not. With the level INFO or DEBUG
\* create_app itself fails in its first logger.info(..., version=...), so that
\* no tool is ever invoked; the levels under which tools run are WARNING (also
\* the level of a logger nobody configured) and ERROR.
StdlibLevels == {"WARNING", "ERROR"}
LoggingValues == {"structured"} \cup StdlibLevels

\* Logger.isEnabledFor on a stdlib logger of effective level `effective`
IsEnabledFor(effective, level) ==
    CASE effective = "WARNING" -> level \in {"warning", "error"}
      [] effective = "ERROR" -> level \in {"error"}
      [] OTHER -> FALSE

\* whether logger.<level>(msg, key=value, ...) raises
LogRaises(level) ==
    settings.logging # "structured" /\ IsEnabledFor(settings.logging, level)

\* the TypeError of Logger._log, naming the first keyword of the call
LogKeywordError(keyword) ==
    OtherError("TypeError",
               <<"Logger._log() got an unexpected keyword argument '", keyword, "'">>)

-----------------------------------------------------------------------------
(* client.py: PorkbunDomainClient._request, one pass of the retry loop *)

\* httpx.Response.raise_for_status raises unless the status is 2xx
Is2xx(code) == code >= 200 /\ code <= 299

\* asyncio.sleep(0.5 * (2**attempt)), in milliseconds
BackoffDelay(attempt) == BackoffBaseMs * (2 ^ attempt)

\* mutant: any non-empty status passes the envelope test
IsSuccessStatusNonEmpty(status) == status.s # <<>>

\* the envelope test: data.get("status", "").upper() != "SUCCESS", on a status
\* that is a str
IsSuccessStatus(status) == Upper(status.s) = SUCCESS

\* the error raised for a 2xx response whose envelope is not SUCCESS
ApplicationError(resp) ==
    PorkbunError(DictGet(resp.body.message, JStr(<<"Unknown API error">>)),
                 Some(resp.code), Some(resp.body))

\* the error raised when the last attempt ended in httpx.HTTPStatusError
HttpStatusExhausted(resp) ==
    PorkbunError(JStr(<<"HTTP ", ToString(resp.code), ": ">> \o resp.text),
                 Some(resp.code), None)

\* the error raised when the last attempt ended in httpx.RequestError
TransportExhausted(resp) ==
    PorkbunError(JStr(<<"Request failed: ">> \o resp.text), None, None)

\* mutant: the last attempt is retried as well
MayRetryInclusive(attempt, max_retries) == attempt <= max_retries

\* whether the except branches retry: attempt < self.settings.max_retries
MayRetry(attempt, max_retries) == attempt < max_retries

\* response.json() and data.get("status", "").upper() != "SUCCESS": whether
\* the envelope says SUCCESS, or the error raised on the way. None of these
\* errors is an httpx one, so none is caught by the except branches.
EnvelopeSaysSuccess(resp) ==
    IF resp.body.json = "invalid"
    THEN Raise(OtherError("JSONDecodeError", <<"Expecting value: line 1 column 1 (char 0)">>))
    ELSE IF resp.body.json = "array"
    THEN Raise(OtherError("AttributeError", <<"'list' object has no attribute 'get'">>))
    ELSE IF DictGet(resp.body.status, JStr(<<>>)).t # "str"
    THEN Raise(OtherError("AttributeError", <<"'NoneType' object has no attribute 'upper'">>))
    ELSE Return(IsSuccessStatus(DictGet(resp.body.status, JStr(<<>>))))

\* what the try block of _request does with a 2xx response
ReadBody(resp) ==
    LET ok == EnvelopeSaysSuccess(resp) IN
    IF ok.k = "raise" THEN ok
    ELSE IF ~ok.value THEN Raise(ApplicationError(resp))
    ELSE Return(resp.body)

\* one pass of the loop body of _request on the outcome `resp` of the send:
\* return data, raise, or sleep before the next attempt. Both except branches
\* begin with logger.warning("...", endpoint=endpoint, ...), whose TypeError
\* leaves _request.
RequestAttempt(resp, attempt, max_retries) ==
    IF (resp.kind = "transport" \/ ~Is2xx(resp.code)) /\ LogRaises("warning")
    THEN Raise(LogKeywordError("endpoint"))
    ELSE IF resp.kind = "transport"
    THEN IF MayRetry(attempt, max_retries)
         THEN Sleep(BackoffDelay(attempt))
         ELSE Raise(TransportExhausted(resp))
    ELSE IF ~Is2xx(resp.code)
    THEN IF MayRetry(attempt, max_retries)
         THEN Sleep(BackoffDelay(attempt))
         ELSE Raise(HttpStatusExhausted(resp))
    ELSE ReadBody(resp)

-----------------------------------------------------------------------------
(* models.py: what pydantic makes of the body *)

\* a required str field: present and a str
IsStr(v) == v.t = "str"
\* a str | None field with default None: a str, null, or absent
IsOptStr(v) == v.t \in {"str", "null", "absent"}
OptStr(v) == IF v.t = "str" THEN Some(v.s) ELSE None

\* Domain(**item)
DomainValid(item) ==
    IsStr(item.domain) /\ IsStr(item.status) /\ IsStr(item.tld) /\ IsOptStr(item.expire_date)

Domain(item) ==
    [domain |-> item.domain.s, status |-> item.status.s, tld |-> item.tld.s,
     create_date |-> None, expire_date |-> OptStr(item.expire_date),
     whois_privacy |-> None, auto_renew |-> None, not_local |-> None]

\* PricingInfo(**entry)
PricingValid(entry) ==
    IsStr(entry.tld) /\ IsOptStr(entry.registration) /\ IsOptStr(entry.renewal)
        /\ IsOptStr(entry.transfer)

PricingInfo(entry) ==
    [tld |-> entry.tld.s, registration |-> OptStr(entry.registration),
     renewal |-> OptStr(entry.renewal), transfer |-> OptStr(entry.transfer)]

\* PorkbunResponse: status: str, message: str | None
EnvelopeValid(data) == IsStr(data.status) /\ IsOptStr(data.message)

ValidationError == OtherError("ValidationError", <<"1 validation error for response model">>)

\* DomainsResponse(**data).domains: the list in the order received, [] by default
DomainsResponse(data) ==
    IF ~EnvelopeValid(data) THEN Raise(ValidationError)
    ELSE IF data.domains.t = "absent" THEN Return(<<>>)
    ELSE IF data.domains.t # "list" THEN Raise(ValidationError)
    ELSE IF \E i \in DOMAIN data.domains.items : ~DomainValid(data.domains.items[i])
    THEN Raise(ValidationError)
    ELSE Return([i \in DOMAIN data.domains.items |-> Domain(data.domains.items[i])])

\* AuthCodeResponse(**data).auth_code
AuthCodeResponse(data) ==
    IF ~EnvelopeValid(data) \/ ~IsOptStr(data.auth_code) THEN Raise(ValidationError)
    ELSE Return(OptStr(data.auth_code))

\* PricingResponse(**data).pricing: {} by default
PricingResponse(data) ==
    IF ~EnvelopeValid(data) THEN Raise(ValidationError)
    ELSE IF data.pricing.t = "absent" THEN Return(EmptyMap)
    ELSE IF \E k \in DOMAIN data.pricing.m : ~PricingValid(data.pricing.m[k])
    THEN Raise(ValidationError)
    ELSE Return([k \in DOMAIN data.pricing.m |-> PricingInfo(data.pricing.m[k])])

-----------------------------------------------------------------------------
(* client.py: the five operations, from what the request gave them *)

Operations == {"list_domains", "get_domain_info", "get_auth_code", "renew_domain", "get_pricing"}

\* the operations that go through _request
RetryingOperations == Operations \ {"get_pricing"}

YearsValues == {1, 3, 11}
TldValues == {None, Some(<<"">>), Some(<<"com">>), Some(<<"org">>)}

Call(op, name, years, tld) == [op |-> op, name |-> name, years |-> years, tld |-> tld]

Calls ==
    {Call("list_domains", <<>>, 0, None)}
        \cup {Call("get_domain_info", n, 0, None) : n \in DomainNames}
        \cup {Call("get_auth_code", <<"example.com">>, 0, None)}
        \cup {Call("renew_domain", <<"example.com">>, y, None) : y \in YearsValues}
        \cup {Call("get_pricing", <<>>, 0, t) : t \in TldValues}

\* the endpoint of a call
Endpoint(call) ==
    CASE call.op = "list_domains" -> <<"/domain/list/all">>
      [] call.op = "get_domain_info" -> <<"/domain/list/all">>
      [] call.op = "get_auth_code" -> <<"/domain/getAuthCode/">> \o call.name
      [] call.op = "renew_domain" -> <<"/domain/renew/">> \o call.name
      [] call.op = "get_pricing" -> <<"/pricing/get">>

\* the JSON body sent: the auth payload, updated with the operation's payload
FullPayload(s, call) ==
    [apikey |-> auth_payload(s).apikey, secretapikey |-> auth_payload(s).secretapikey,
     years |-> IF call.op = "renew_domain" THEN Some(call.years) ELSE None]

\* list_domains: DomainsResponse(**data).domains
list_domains(req) == IF req.k = "raise" THEN req ELSE DomainsResponse(req.value)

\* mutant: the scan keeps the last match
LastMatch(domains, domain) ==
    IF \E i \in DOMAIN domains : domains[i].domain = domain
    THEN CHOOSE i \in DOMAIN domains :
            /\ domains[i].domain = domain
            /\ \A j \in (i + 1)..Len(domains) : domains[j].domain # domain
    ELSE 0

\* the scan of get_domain_info: the index of the first d with d.domain == domain,
\* 0 when there is none
FirstMatch(domains, domain) ==
    IF \E i \in DOMAIN domains : domains[i].domain = domain
    THEN CHOOSE i \in DOMAIN domains :
            /\ domains[i].domain = domain
            /\ \A j \in 1..(i - 1) : domains[j].domain # domain
    ELSE 0

NotFoundError(domain) ==
    PorkbunError(JStr(<<"Domain ">> \o domain \o <<" not found in account">>),
                 Some(NotFoundStatus), None)

\* get_domain_info: list all and find the one
get_domain_info(req, domain) ==
    LET listed == list_domains(req) IN
    IF listed.k = "raise" THEN listed
    ELSE IF FirstMatch(listed.value, domain) = 0 THEN Raise(NotFoundError(domain))
    ELSE Return(listed.value[FirstMatch(listed.value, domain)])

\* get_auth_code: response.auth_code or ""
get_auth_code(req) ==
    IF req.k = "raise" THEN req
    ELSE LET parsed == AuthCodeResponse(req.value) IN
         IF parsed.k = "raise" THEN parsed
         ELSE IF parsed.value = None THEN Return(<<"">>)
         ELSE Return(parsed.value.v)

DefaultRenewMessage == JStr(<<"Domain renewed successfully">>)

\* mutant: data.get("message") or "Domain renewed successfully"
RenewMessageOrDefault(data) ==
    IF data.message.t = "str" /\ ~IsEmptyStr(data.message.s)
    THEN data.message
    ELSE DefaultRenewMessage

\* the message of the renewal result: data.get("message", "Domain renewed successfully")
RenewMessage(data) == DictGet(data.message, DefaultRenewMessage)

\* renew_domain: the result dict
renew_domain(req, domain, years) ==
    IF req.k = "raise" THEN req
    ELSE Return([domain |-> domain, years |-> years, success |-> TRUE,
                 message |-> RenewMessage(req.value)])

\* the truth value of `tld` in `if tld:`: neither None nor ""
TldGiven(tld) == tld # None /\ ~IsEmptyStr(tld.v)

\* the tail of get_pricing: the entry of `tld`, nothing, or the whole mapping
FilterPricing(pricing, tld) ==
    IF TldGiven(tld)
    THEN IF tld.v \in DOMAIN pricing
         THEN [k \in {tld.v} |-> pricing[tld.v]]
         ELSE EmptyMap
    ELSE pricing

\* the error get_pricing raises on an envelope that is not SUCCESS
PricingError(resp) ==
    PorkbunError(DictGet(resp.body.message, JStr(<<"Failed to get pricing">>)), None, None)

\* get_pricing on the outcome of its single client.post: the httpx errors are
\* not caught here
get_pricing(resp, tld) ==
    IF resp.kind = "transport" THEN Raise(OtherError("RequestError", resp.text))
    ELSE IF ~Is2xx(resp.code)
    THEN Raise(OtherError("HTTPStatusError",
                          <<"HTTP status error '", ToString(resp.code), "' for url '/pricing/get'">>))
    ELSE LET ok == EnvelopeSaysSuccess(resp) IN
         IF ok.k = "raise" THEN ok
         ELSE IF ~ok.value THEN Raise(PricingError(resp))
         ELSE LET parsed == PricingResponse(resp.body) IN
              IF parsed.k = "raise" THEN parsed
              ELSE Return(FilterPricing(parsed.value, tld))

\* what the operation of `call` makes of the outcome `req` of _request
ClientOperation(call, req) ==
    CASE call.op = "list_domains" -> list_domains(req)
      [] call.op = "get_domain_info" -> get_domain_info(req, call.name)
      [] call.op = "get_auth_code" -> get_auth_code(req)
      [] call.op = "renew_domain" -> renew_domain(req, call.name, call.years)

-----------------------------------------------------------------------------
(* tools/domain_tools.py: the five tools *)

\* ToolResponse(success=True, message=..., data=..., next_steps=[...])
ToolSuccess(message, data, next_steps) ==
    [success |-> TRUE, message |-> message, data |-> Some(data), error |-> None,
     next_steps |-> Some(next_steps)]

\* mutant: the except branch leaves the error out
ToolFailureNoError(message, exc, next_steps) ==
    [success |-> FALSE, message |-> message, data |-> None,
     error |-> None, next_steps |-> Some(next_steps)]

\* ToolResponse(success=False, message=..., error=str(e), next_steps=[...])
ToolFailure(message, exc, next_steps) ==
    [success |-> FALSE, message |-> message, data |-> None,
     error |-> Some(StrOfError(exc)), next_steps |-> Some(next_steps)]

_domain_to_dict(d) ==
    [domain |-> d.domain, status |-> d.status, tld |-> d.tld,
     create_date |-> d.create_date, expire_date |-> d.expire_date,
     whois_privacy |-> d.whois_privacy, auto_renew |-> d.auto_renew,
     not_local |-> d.not_local]

_pricing_to_dict(p) ==
    [tld |-> p.tld, registration |-> p.registration, renewal |-> p.renewal,
     transfer |-> p.transfer]

ListDomainsTool(res) ==
    IF res.k = "return"
    THEN ToolSuccess(<<"Found ", ToString(Len(res.value)), " domains in your account">>,
                     [domains |-> [i \in DOMAIN res.value |-> _domain_to_dict(res.value[i])],
                      count |-> Len(res.value)],
                     <<"Use get_domain_info for details on a specific domain",
                       "Use get_pricing to check renewal costs",
                       "Use renew_domain to extend registration">>)
    ELSE ToolFailure(<<"Failed to list domains">>, res.exc,
                     <<"Verify your API credentials are valid",
                       "Check network connectivity">>)

GetDomainInfoTool(res, domain) ==
    IF res.k = "return"
    THEN ToolSuccess(<<"Retrieved information for ">> \o domain,
                     [domain |-> _domain_to_dict(res.value)],
                     <<"Use get_auth_code to get transfer authorization",
                       "Use renew_domain to extend registration">>)
    ELSE ToolFailure(<<"Failed to get info for ">> \o domain, res.exc,
                     <<"Verify the domain name is correct",
                       "Ensure the domain is in your account",
                       "Use list_domains to see all your domains">>)

GetAuthCodeTool(res, domain) ==
    IF res.k = "return"
    THEN ToolSuccess(<<"Retrieved auth code for ">> \o domain,
                     [domain |-> domain, auth_code |-> res.value],
                     <<"Provide this code to the gaining registrar",
                       "Unlock the domain at Porkbun before transfer",
                       "Verify the admin email is correct for transfer approval">>)
    ELSE ToolFailure(<<"Failed to get auth code for ">> \o domain, res.exc,
                     <<"Verify the domain is in your account",
                       "Check if the domain is eligible for transfer">>)

RenewDomainTool(res, domain, years) ==
    IF res.k = "return"
    THEN ToolSuccess(<<"Renewed ">> \o domain \o <<" for ", ToString(years), " year(s)">>,
                     res.value,
                     <<"Check the new expiration date",
                       "Verify auto-renew is configured if desired">>)
    ELSE ToolFailure(<<"Failed to renew ">> \o domain, res.exc,
                     <<"Verify the domain is in your account",
                       "Check if the domain is eligible for renewal",
                       "Ensure you have sufficient account balance">>)

\* pricing_list, as the set of its elements: {"tld": t, **_pricing_to_dict(p)}
\* leaves p.tld under "tld"
PricingList(pricing) == {_pricing_to_dict(pricing[t]) : t \in DOMAIN pricing}

GetPricingTool(res) ==
    IF res.k = "return"
    THEN ToolSuccess(<<"Retrieved pricing for ", ToString(Cardinality(DOMAIN res.value)), " TLD(s)">>,
                     [pricing |-> PricingList(res.value),
                      count |-> Cardinality(DOMAIN res.value)],
                     <<"Compare prices across TLDs",
                       "Use this info to plan domain registrations">>)
    ELSE ToolFailure(<<"Failed to get pricing information">>, res.exc,
                     <<"Try again later", "Check network connectivity">>)

\* the classes `except Exception` catches: every error the client raises is
\* one (PorkbunError(Exception), the httpx errors, ValueError's JSONDecodeError
\* and ValidationError, AttributeError, TypeError, RuntimeError)
CaughtByTool(exc) ==
    exc.type \in {"PorkbunError", "HTTPStatusError", "RequestError", "JSONDecodeError",
                  "AttributeError", "ValidationError", "TypeError", "RuntimeError"}

\* the first keyword of the logger.error call in the except branch of the tool
ErrorLogKeyword(call) ==
    IF call.op \in {"list_domains", "get_pricing"} THEN "error" ELSE "domain"

\* the ToolResponse the tool of `call` builds, in its try or in its except
ToolBody(call, res) ==
    CASE call.op = "list_domains" -> ListDomainsTool(res)
      [] call.op = "get_domain_info" -> GetDomainInfoTool(res, call.name)
      [] call.op = "get_auth_code" -> GetAuthCodeTool(res, call.name)
      [] call.op = "renew_domain" -> RenewDomainTool(res, call.name, call.years)
      [] call.op = "get_pricing" -> GetPricingTool(res)

\* the tool of `call`, on what the client operation returned or raised:
\* try ... except Exception; an error the except does not catch leaves the
\* tool, and so does the TypeError of the logger.error(..., error=str(e)) with
\* which the except branch begins, before it builds its ToolResponse
Tool(call, res) ==
    IF res.k = "raise" /\ ~CaughtByTool(res.exc)
    THEN res
    ELSE IF res.k = "raise" /\ LogRaises("error")
    THEN Raise(LogKeywordError(ErrorLogKeyword(call)))
    ELSE Return(ToolBody(call, res))

-----------------------------------------------------------------------------
(* The state machine: tool invocations on one client *)

NoResponse == [kind |-> "none"]
NoOutcome == [k |-> "none"]
NoCall == Call("none", <<>>, 0, None)
NoRequest == [handle |-> NoHandle, endpoint |-> <<>>, json |-> None]
NotSeen == [seen |-> FALSE]

\* an invocation record:
\*   pc        idle, waiting (for the network), sleeping (in the backoff), done
\*   call      the tool and its arguments
\*   attempt   the loop variable of _request
\*   calls     remote calls made so far
\*   sleeps    the backoff delays slept so far, in order
\*   handle    the handle _ensure_client gave this invocation
\*   request   the last request sent
\*   last      what the last remote call gave
\*   first     the HTTP status of the first attempt, once it has failed
\*   applied   how many times the remote API has applied the renewal this
\*             invocation asks for
\*   returned  the body _request returned to the operation, if it returned
\*   outcome   what the client operation returned or raised
\*   result    what the tool gave the agent: Return(ToolResponse), or Raise(e)
\*             for an error that left the tool
\*   within    the invocations that were in a backoff sleep when this one
\*             started and have stayed in that sleep since
IdleTask ==
    [pc |-> "idle", call |-> NoCall, attempt |-> 0, calls |-> 0, sleeps |-> <<>>,
     handle |-> NoHandle, request |-> NoRequest, last |-> NoResponse,
     first |-> NotSeen, applied |-> 0, returned |-> None, outcome |-> NoOutcome, result |-> NoOutcome,
     within |-> {}]

\* the HTTP status of a failed attempt: None for a transport error
FailureStatus(resp) == IF resp.kind = "transport" THEN None ELSE Some(resp.code)

\* client.request(method, endpoint, json=full_payload) on `handle`
Request(handle, call) ==
    [handle |-> handle, endpoint |-> Endpoint(call), json |-> Some(FullPayload(settings, call))]

Init ==
    /\ settings \in {[max_retries |-> m, api_key |-> ApiKey, secret_key |-> SecretKey,
                      logging |-> l] : m \in MaxRetriesValues, l \in LoggingValues}
    /\ concurrent = FALSE
    /\ client = NoHandle
    /\ created = 0
    /\ closed = {}
    /\ closing = [c \in {1} |-> NoHandle]
    /\ lastEvent = "constructed"
    /\ inv = [t \in {1} |-> IdleTask]

\* no close() call is suspended in aclose()
NoneClosing == \A c \in DOMAIN closing : closing[c] = NoHandle

\* mutant: an operation starts only when nothing else is in flight, as if an
\* invocation held a lock from its start to its end, its sleeps included
MayStartSerial == NoneClosing /\ \A t \in DOMAIN inv : inv[t].pc = "idle"

\* when operations run one after another, one starts only when nothing else
\* is in flight
MayStart ==
    concurrent \/ (NoneClosing /\ \A t \in DOMAIN inv : inv[t].pc = "idle")

\* mutant: _ensure_client constructs a handle on every call
EnsureAlwaysCreates == TRUE

\* _ensure_client: whether it constructs a handle, and the handle it returns
EnsureCreates == client = NoHandle
EnsuredClient == IF EnsureCreates THEN created + 1 ELSE client

\* httpx.AsyncClient marks itself closed when aclose() starts, and from then on
\* client.request / client.post raise RuntimeError before anything is sent
SendRefused(handle) == handle \in closed

ClosedClientError ==
    OtherError("RuntimeError", <<"Cannot send a request, as the client has been closed.">>)

\* the invocation of `call` ended by the RuntimeError of a refused send: the
\* error is none of those _request catches, so it leaves the operation
RefusedTask(task, call) ==
    [task EXCEPT !.pc = "done", !.call = call,
                 !.outcome = Raise(ClosedClientError),
                 !.result = Tool(call, Raise(ClosedClientError))]

\* A tool is invoked: the client operation calls _ensure_client, builds the
\* payload and sends the first request (client.py 79-94, 248-254); a handle
\* whose close has started refuses it.
Invoke(t, call) ==
    /\ MayStart
    /\ inv[t].pc = "idle"
    /\ EnsureCreates => created < MaxHandles
    /\ client' = EnsuredClient
    /\ created' = IF EnsureCreates THEN created + 1 ELSE created
    /\ lastEvent' = IF EnsureCreates THEN "created" ELSE "reused"
    /\ inv' = [inv EXCEPT ![t] =
                 IF SendRefused(EnsuredClient)
                 THEN RefusedTask(
                        [IdleTask EXCEPT
                            !.handle = EnsuredClient,
                            !.within = {u \in DOMAIN inv : inv[u].pc = "sleeping"}], call)
                 ELSE [IdleTask EXCEPT
                          !.pc = "waiting", !.call = call, !.calls = 1,
                          !.handle = EnsuredClient,
                          !.request = Request(EnsuredClient, call),
                          !.within = {u \in DOMAIN inv : inv[u].pc = "sleeping"}]]
    /\ UNCHANGED <<settings, concurrent, closed, closing>>

\* __aenter__ (async with PorkbunDomainClient(...)): _ensure_client alone
Enter ==
    /\ MayStart
    /\ EnsureCreates => created < MaxHandles
    /\ client' = EnsuredClient
    /\ created' = IF EnsureCreates THEN created + 1 ELSE created
    /\ lastEvent' = IF EnsureCreates THEN "created" ELSE "reused"
    /\ UNCHANGED <<settings, concurrent, closed, closing, inv>>

\* mutant: get_pricing retries its failures like _request
AnsweredRetryingPricing(task, resp) ==
    IF RequestAttempt(resp, task.attempt, settings.max_retries).k = "sleep"
    THEN RequestAttempt(resp, task.attempt, settings.max_retries)
    ELSE IF task.call.op = "get_pricing"
    THEN get_pricing(resp, task.call.tld)
    ELSE RequestAttempt(resp, task.attempt, settings.max_retries)

\* what the client operation makes of the answer `resp`: for get_pricing its
\* single post, for the others one pass of the loop of _request
Answered(task, resp) ==
    IF task.call.op = "get_pricing"
    THEN get_pricing(resp, task.call.tld)
    ELSE RequestAttempt(resp, task.attempt, settings.max_retries)

\* the first attempt's status, remembered when that attempt fails
NoteFirst(task, resp) ==
    IF task.attempt = 0 /\ (resp.kind = "transport" \/ ~Is2xx(resp.code))
    THEN [seen |-> TRUE, status |-> FailureStatus(resp)]
    ELSE task.first

\* How many renewals the remote API applied for one POST /domain/renew/...,
\* given what became of the request: one when it answers SUCCESS; none or one
\* when the transport fails with no answer after the request may have gone out
\* (a read timeout, a dropped connection: httpx.RequestError with an empty
\* text); none when the connection was never made or the answer is a failure.
RemoteApplied(call, resp) ==
    IF call.op # "renew_domain" THEN {0}
    ELSE IF resp.kind = "transport"
    THEN IF resp.text = <<"">> THEN {0, 1} ELSE {0}
    ELSE IF Is2xx(resp.code) /\ EnvelopeSaysSuccess(resp).k = "return"
                /\ EnvelopeSaysSuccess(resp).value
    THEN {1}
    ELSE {0}

\* the body _request hands to the operation that called it
Returned(task, resp) ==
    IF task.call.op # "get_pricing" /\ Answered(task, resp).k = "return"
    THEN Some(Answered(task, resp).value)
    ELSE None

\* The answer to the pending request ends the invocation: the operation
\* returns or raises and the tool wraps it in a ToolResponse.
Complete(t, resp) ==
    /\ inv[t].pc = "waiting"
    /\ Answered(inv[t], resp).k # "sleep"
    /\ \E ap \in RemoteApplied(inv[t].call, resp) :
       LET res == IF inv[t].call.op = "get_pricing"
                  THEN Answered(inv[t], resp)
                  ELSE ClientOperation(inv[t].call, Answered(inv[t], resp))
       IN inv' = [inv EXCEPT ![t].pc = "done", ![t].last = resp,
                             ![t].applied = @ + ap,
                             ![t].first = NoteFirst(inv[t], resp),
                             ![t].returned = Returned(inv[t], resp),
                             ![t].outcome = res,
                             ![t].result = Tool(inv[t].call, res)]
    /\ lastEvent' = "none"
    /\ UNCHANGED <<settings, concurrent, client, created, closed, closing>>

\* The answer is a failure that is retried: the invocation sleeps.
Backoff(t, resp) ==
    /\ inv[t].pc = "waiting"
    /\ Answered(inv[t], resp).k = "sleep"
    /\ \E ap \in RemoteApplied(inv[t].call, resp) :
        inv' = [inv EXCEPT ![t].pc = "sleeping", ![t].last = resp,
                          ![t].applied = @ + ap,
                          ![t].first = NoteFirst(inv[t], resp),
                          ![t].sleeps = Append(@, Answered(inv[t], resp).delay)]
    /\ lastEvent' = "none"
    /\ UNCHANGED <<settings, concurrent, client, created, closed, closing>>

\* The sleep is over: the loop goes to its next attempt and sends the request
\* again, on the handle obtained before the loop; if that handle's close has
\* started meanwhile, the send of that next attempt is refused and the
\* invocation ends.
Retry(t) ==
    /\ inv[t].pc = "sleeping"
    /\ inv' = [u \in DOMAIN inv |->
                 IF u # t
                 THEN [inv[u] EXCEPT !.within = @ \ {t}]
                 ELSE IF SendRefused(inv[t].handle)
                 THEN RefusedTask([inv[t] EXCEPT !.attempt = @ + 1], inv[t].call)
                 ELSE [inv[t] EXCEPT !.pc = "waiting", !.attempt = @ + 1,
                                     !.calls = @ + 1,
                                     !.request = Request(inv[t].handle, inv[t].call)]]
    /\ lastEvent' = "none"
    /\ UNCHANGED <<settings, concurrent, client, created, closed, closing>>

\* The agent takes the result; the task can run another invocation.
Deliver(t) ==
    /\ inv[t].pc = "done"
    /\ inv' = [inv EXCEPT ![t] = IdleTask]
    /\ lastEvent' = "none"
    /\ UNCHANGED <<settings, concurrent, client, created, closed, closing>>

\* close() with a handle held: it awaits self._client.aclose() ... On a handle
\* whose close has already started (another close() is suspended on it),
\* aclose() returns without suspending and close() goes on to
\* self._client = None in the same step.
CloseBegin(c) ==
    /\ MayStart
    /\ closing[c] = NoHandle
    /\ client # NoHandle
    /\ IF client \in closed
       THEN /\ client' = NoHandle
            /\ lastEvent' = "closed"
            /\ UNCHANGED <<closing, closed>>
       ELSE /\ closing' = [closing EXCEPT ![c] = client]
            /\ closed' = closed \cup {client}
            /\ lastEvent' = "closing"
            /\ UNCHANGED client
    /\ UNCHANGED <<settings, concurrent, created, inv>>

\* ... and then sets self._client = None, whatever self._client is by then
CloseEnd(c) ==
    /\ closing[c] # NoHandle
    /\ closing' = [closing EXCEPT ![c] = NoHandle]
    /\ client' = NoHandle
    /\ lastEvent' = "closed"
    /\ UNCHANGED <<settings, concurrent, created, closed, inv>>

\* close() with no handle held does nothing
CloseNothing(c) ==
    /\ MayStart
    /\ closing[c] = NoHandle
    /\ client = NoHandle
    /\ lastEvent' = "close_nothing"
    /\ UNCHANGED <<settings, concurrent, client, created, closed, closing, inv>>

Next ==
    \/ \E t \in DOMAIN inv, call \in Calls : Invoke(t, call)
    \/ Enter
    \/ \E t \in DOMAIN inv, resp \in Responses : Complete(t, resp)
    \/ \E t \in DOMAIN inv, resp \in Responses : Backoff(t, resp)
    \/ \E t \in DOMAIN inv : Retry(t)
    \/ \E t \in DOMAIN inv : Deliver(t)
    \/ \E c \in DOMAIN closing : CloseBegin(c)
    \/ \E c \in DOMAIN closing : CloseEnd(c)
    \/ \E c \in DOMAIN closing : CloseNothing(c)

Spec == Init /\ [][Next]_vars

-----------------------------------------------------------------------------
(* Concurrent use: two tool invocations and two close() calls interleave on  *)
(* one client, as coroutines of one event loop. The steps are the same; the  *)
(* calls and the answers are a part of those of Spec.                        *)

ConcurrentCalls ==
    {Call("list_domains", <<>>, 0, None), Call("get_pricing", <<>>, 0, None)}

ConcurrentResponses ==
    { TransportError(<<"">>),
      HttpResponse(503, <<"Service Unavailable">>, [json |-> "invalid"]),
      HttpResponse(200, <<"body">>, Envelope(JStr(SUCCESS), JAbsent, JAbsent, JAbsent, JAbsent)) }

ConcurrentMaxRetries == {0, 1}

InitConcurrent ==
    /\ settings \in {[max_retries |-> m, api_key |-> ApiKey, secret_key |-> SecretKey,
                      logging |-> "structured"] : m \in ConcurrentMaxRetries}
    /\ concurrent = TRUE
    /\ client = NoHandle
    /\ created = 0
    /\ closed = {}
    /\ closing = [c \in {1, 2} |-> NoHandle]
    /\ lastEvent = "constructed"
    /\ inv = [t \in {1, 2} |-> IdleTask]

NextConcurrent ==
    \/ \E t \in DOMAIN inv, call \in ConcurrentCalls : Invoke(t, call)
    \/ Enter
    \/ \E t \in DOMAIN inv, resp \in ConcurrentResponses : Complete(t, resp)
    \/ \E t \in DOMAIN inv, resp \in ConcurrentResponses : Backoff(t, resp)
    \/ \E t \in DOMAIN inv : Retry(t)
    \/ \E t \in DOMAIN inv : Deliver(t)
    \/ \E c \in DOMAIN closing : CloseBegin(c)
    \/ \E c \in DOMAIN closing : CloseEnd(c)
    \/ \E c \in DOMAIN closing : CloseNothing(c)

SpecConcurrent == InitConcurrent /\ [][NextConcurrent]_vars

-----------------------------------------------------------------------------
(* Properties *)

Tasks == DOMAIN inv

\* the invocation of task t is one of the operations that go through _request
Retrying(t) == inv[t].call.op \in RetryingOperations

\* the outcome of a send is retryable: a transport error or a non-2xx status
IsFailure(resp) ==
    resp.kind = "transport" \/ (resp.kind = "http" /\ (resp.code < 200 \/ resp.code > 299))

\* a 2xx response whose body is a JSON object
IsParsed2xx(resp) ==
    resp.kind = "http" /\ resp.code \in 200..299 /\ resp.body.json = "object"

\* the envelope status, compared case-insensitively, is SUCCESS
SaysSuccess(resp) ==
    /\ resp.body.status.t = "str"
    /\ resp.body.status.s \in {SUCCESS, <<"s", "u", "c", "c", "e", "s", "s">>}

\* a 2xx response that parses and whose envelope is not SUCCESS, whatever
\* the status is (a string, null, or missing)
NonSuccessEnvelope(resp) == IsParsed2xx(resp) /\ ~SaysSuccess(resp)

\* the same, with a status that is a string or is missing
NonSuccessStringEnvelope(resp) ==
    NonSuccessEnvelope(resp) /\ resp.body.status.t \in {"str", "absent"}

RaisedPorkbunError(t) ==
    inv[t].outcome.k = "raise" /\ inv[t].outcome.exc.type = "PorkbunError"

\* C1 as stated: whenever an authenticated request receives a 2xx response that
\* parses and whose envelope status is not SUCCESS (any other string, null, or
\* missing), it raises PorkbunError and the invocation has made exactly one
\* remote call and slept never, on whichever attempt that response arrives.
C1_OneCallOnNonSuccess ==
    \A t \in Tasks :
        (inv[t].pc = "done" /\ Retrying(t) /\ inv[t].last # NoResponse
            /\ NonSuccessEnvelope(inv[t].last))
            => (RaisedPorkbunError(t) /\ inv[t].calls = 1 /\ inv[t].sleeps = <<>>)

\* the delays of the backoff, in milliseconds: 0.5, 1, 2, 4, 8 seconds
ExpectedSleeps == <<500, 1000, 2000, 4000, 8000>>

\* C2 as stated: when every attempt of an authenticated request fails (transport error
\* or non-2xx status) it makes max_retries + 1 remote calls, sleeps once between
\* consecutive attempts for 0.5 * 2^i seconds after failed attempt i, does not
\* sleep after the last one, and raises.
C2_ExactRetriesAndBackoff ==
    \A t \in Tasks :
        /\ (inv[t].pc = "done" /\ Retrying(t) /\ IsFailure(inv[t].last))
            => /\ inv[t].calls = settings.max_retries + 1
               /\ inv[t].sleeps = SubSeq(ExpectedSleeps, 1, settings.max_retries)
               /\ inv[t].outcome.k = "raise"
        /\ (Retrying(t) /\ inv[t].pc = "waiting")
            => inv[t].sleeps = SubSeq(ExpectedSleeps, 1, inv[t].calls - 1)
        /\ (Retrying(t) /\ inv[t].pc = "sleeping")
            => /\ inv[t].sleeps = SubSeq(ExpectedSleeps, 1, inv[t].calls)
               /\ inv[t].calls <= settings.max_retries

\* whether the string s ends with the string suffix
EndsWith(s, suffix) ==
    /\ Len(s) >= Len(suffix)
    /\ SubSeq(s, Len(s) - Len(suffix) + 1, Len(s)) = suffix

\* C3 as stated: the error raised after the retries are exhausted is a PorkbunError that
\* describes the last failed attempt: its status code and text if that was a
\* non-2xx response, no status if it was a transport error.
C3_ErrorDescribesLastFailure ==
    \A t \in Tasks :
        (inv[t].pc = "done" /\ Retrying(t) /\ IsFailure(inv[t].last))
            => /\ RaisedPorkbunError(t)
               /\ inv[t].last.kind = "http"
                    => /\ inv[t].outcome.exc.status = Some(inv[t].last.code)
                       /\ inv[t].outcome.exc.message.t = "str"
                       /\ EndsWith(inv[t].outcome.exc.message.s, inv[t].last.text)
                       /\ ToString(inv[t].last.code) \in Range(inv[t].outcome.exc.message.s)
               /\ inv[t].last.kind = "transport"
                    => /\ inv[t].outcome.exc.status = None
                       /\ EndsWith(inv[t].outcome.exc.message.s, inv[t].last.text)

\* the ToolResponse of a finished invocation
Response(t) == inv[t].result.value

\* C4 as stated: every invocation of each of the five tools ends by returning a
\* ToolResponse whose success field is a boolean, whatever the client operation
\* returned or raised; no error leaves the tool.
C4_ToolAlwaysResponds ==
    \A t \in Tasks :
        inv[t].pc = "done"
            => /\ inv[t].outcome.k \in {"return", "raise"}
               /\ inv[t].result.k = "return"
               /\ Response(t).success \in BOOLEAN

\* C5: whenever a tool call returns success = false, the error field of the
\* response is a non-empty string.
C5_FailureHasNonEmptyError ==
    \A t \in Tasks :
        (inv[t].pc = "done" /\ inv[t].result.k = "return" /\ ~Response(t).success)
            => (Response(t).error # None /\ ~IsEmptyStr(Response(t).error.v))

\* C5, for the errors the client composes itself: exhausted retries and a
\* domain that is not listed give a non-empty error string.
C5_ComposedErrorsNonEmpty ==
    \A t \in Tasks :
        (inv[t].pc = "done" /\ inv[t].result.k = "return" /\ ~Response(t).success
            /\ Retrying(t) /\ ~NonSuccessEnvelope(inv[t].last))
            => (Response(t).error # None /\ ~IsEmptyStr(Response(t).error.v))

\* the listing get_domain_info scans, when the request returned one
Listed(t) == DomainsResponse(inv[t].last.body)

\* C6: get_domain_info(name) returns the first record of the listing, in listing
\* order, whose domain equals name exactly, unchanged; with no such record
\* (the empty listing included) it raises PorkbunError with status 404.
C6_GetDomainInfoFirstExactMatch ==
    \A t \in Tasks :
        (inv[t].pc = "done" /\ inv[t].call.op = "get_domain_info"
            /\ IsParsed2xx(inv[t].last) /\ SaysSuccess(inv[t].last)
            /\ Listed(t).k = "return")
            => LET ds == Listed(t).value
                   matches == {i \in DOMAIN ds : ds[i].domain = inv[t].call.name}
               IN IF matches = {}
                  THEN /\ RaisedPorkbunError(t)
                       /\ inv[t].outcome.exc.status = Some(404)
                  ELSE /\ inv[t].outcome.k = "return"
                       /\ \E i \in matches :
                            /\ \A j \in matches : i <= j
                            /\ inv[t].outcome.value = ds[i]

\* C6 witness: two records carry the name asked for; the first is returned
C6_Witness ==
    \E t \in Tasks :
        /\ inv[t].pc = "done" /\ inv[t].call.op = "get_domain_info"
        /\ IsParsed2xx(inv[t].last) /\ SaysSuccess(inv[t].last)
        /\ Listed(t).k = "return" /\ Len(Listed(t).value) = 2
        /\ Listed(t).value[1].domain = inv[t].call.name
        /\ Listed(t).value[2].domain = inv[t].call.name
        /\ Listed(t).value[1] # Listed(t).value[2]
        /\ inv[t].outcome = Return(Listed(t).value[1])

\* C6 witness: the only listed name differs from the one asked for by case
C6_WitnessCase ==
    \E t \in Tasks :
        /\ inv[t].pc = "done" /\ inv[t].call.op = "get_domain_info"
        /\ inv[t].call.name = <<"example.com">>
        /\ IsParsed2xx(inv[t].last) /\ SaysSuccess(inv[t].last)
        /\ Listed(t).k = "return" /\ Len(Listed(t).value) = 1
        /\ Listed(t).value[1].domain = <<"Example.com">>
        /\ RaisedPorkbunError(t) /\ inv[t].outcome.exc.status = Some(404)

\* the pricing map get_pricing filters, when the answer held one
Priced(t) == PricingResponse(inv[t].last.body)

\* get_pricing got a SUCCESS envelope with a pricing map that parses
PricingReceived(t) ==
    /\ inv[t].pc = "done" /\ inv[t].call.op = "get_pricing"
    /\ IsParsed2xx(inv[t].last) /\ SaysSuccess(inv[t].last)
    /\ Priced(t).k = "return"

\* the mapping of the one key tld when the map has it, the empty mapping otherwise
OnlyEntry(pricing, tld) ==
    IF tld \in DOMAIN pricing THEN [k \in {tld} |-> pricing[tld]] ELSE EmptyMap

\* C7: for every tld filter value supplied to get_pricing the result is the
\* one-entry mapping of that tld, or the empty mapping when the map has no such
\* key; only when no filter is supplied is the full map returned.
C7_FilterReturnsOnlyTld ==
    \A t \in Tasks :
        PricingReceived(t)
            => IF inv[t].call.tld = None
               THEN inv[t].outcome = Return(Priced(t).value)
               ELSE inv[t].outcome = Return(OnlyEntry(Priced(t).value, inv[t].call.tld.v))

\* C7, for the filters that are not the empty string: the code does filter
C7_NonEmptyFilterReturnsOnlyTld ==
    \A t \in Tasks :
        (PricingReceived(t) /\ inv[t].call.tld # None /\ inv[t].call.tld.v # <<"">>)
            => inv[t].outcome = Return(OnlyEntry(Priced(t).value, inv[t].call.tld.v))

\* C8: renew_domain(name, years) returns, whenever the request returns,
\* domain = name, years = years, success = true and the envelope's message (the
\* canned message when the envelope has none); whenever the request raises it
\* returns nothing, so no result with success = false exists.
C8_RenewResult ==
    \A t \in Tasks :
        (inv[t].pc = "done" /\ inv[t].call.op = "renew_domain")
            => IF IsParsed2xx(inv[t].last) /\ SaysSuccess(inv[t].last)
               THEN inv[t].outcome =
                        Return([domain |-> inv[t].call.name,
                                years |-> inv[t].call.years,
                                success |-> TRUE,
                                message |->
                                    IF inv[t].last.body.message.t = "absent"
                                    THEN JStr(<<"Domain renewed successfully">>)
                                    ELSE inv[t].last.body.message])
               ELSE inv[t].outcome.k = "raise"

\* C8 witness: a renewal for 3 years answered with a message of the remote API
C8_Witness ==
    \E t \in Tasks :
        /\ inv[t].pc = "done" /\ inv[t].call.op = "renew_domain"
        /\ inv[t].call.years = 3
        /\ IsParsed2xx(inv[t].last) /\ SaysSuccess(inv[t].last)
        /\ inv[t].last.body.message = JStr(<<"">>)
        /\ inv[t].outcome.k = "return"
        /\ inv[t].outcome.value.years = 3
        /\ inv[t].outcome.value.message = JStr(<<"">>)

\* C8 witness: the envelope has no message and the canned one is returned
C8_WitnessDefault ==
    \E t \in Tasks :
        /\ inv[t].pc = "done" /\ inv[t].call.op = "renew_domain"
        /\ IsParsed2xx(inv[t].last) /\ SaysSuccess(inv[t].last)
        /\ inv[t].last.body.message = JAbsent
        /\ inv[t].outcome.k = "return"
        /\ inv[t].outcome.value.message = JStr(<<"Domain renewed successfully">>)

\* C9: get_pricing makes exactly one remote call per invocation and never
\* sleeps, whatever the answer and whatever max_retries is; on a non-success
\* envelope, a non-2xx status or a transport error it raises at once.
C9_PricingSingleCall ==
    \A t \in Tasks :
        inv[t].call.op = "get_pricing"
            => /\ inv[t].pc \in {"waiting", "done"}
               /\ inv[t].calls = 1
               /\ inv[t].attempt = 0
               /\ inv[t].sleeps = <<>>
               /\ (inv[t].pc = "done"
                     /\ (IsFailure(inv[t].last) \/ NonSuccessStringEnvelope(inv[t].last)))
                    => inv[t].outcome.k = "raise"

\* C9 witness: with five retries configured, a transport error ended get_pricing
\* after its only call
C9_Witness ==
    \E t \in Tasks :
        /\ inv[t].pc = "done" /\ inv[t].call.op = "get_pricing"
        /\ settings.max_retries = 5
        /\ inv[t].last.kind = "transport"
        /\ inv[t].calls = 1 /\ inv[t].sleeps = <<>>
        /\ inv[t].outcome.k = "raise"

\* what one step may do to the handle when operations and close() run one
\* after another
C10_Step ==
    \* an operation starts: it creates the handle when none is held, and
    \* otherwise uses the one held
    /\ \A t \in Tasks :
        (inv[t].pc = "idle" /\ inv'[t].pc = "waiting")
            => IF client = NoHandle
               THEN /\ created' = created + 1
                    /\ client' = created'
                    /\ client' \notin closed'
                    /\ inv'[t].request.handle = client'
               ELSE /\ created' = created
                    /\ client' = client
                    /\ inv'[t].request.handle = client
    \* a retry uses the handle held
    /\ \A t \in Tasks :
        (inv[t].pc = "sleeping" /\ inv'[t].pc = "waiting")
            => /\ created' = created
               /\ client' = client
               /\ inv'[t].request.handle = client
    \* no handle is created while one is held
    /\ created' # created => (client = NoHandle /\ created' = created + 1)
    \* close() closes the handle held and leaves the client with none
    /\ \A c \in DOMAIN closing :
        /\ (closing[c] = NoHandle /\ closing'[c] # NoHandle)
                => (closing'[c] = client /\ client # NoHandle /\ client \in closed')
        /\ (closing[c] # NoHandle /\ closing'[c] = NoHandle)
                => (client = closing[c] /\ client' = NoHandle /\ closing[c] \in closed')
    /\ (client # NoHandle /\ client' = NoHandle) => client \in closed
    \* close() with no handle held changes nothing
    /\ lastEvent' = "close_nothing"
            => (client = NoHandle /\ UNCHANGED <<client, created, closed, closing>>)
    \* a handle once closed is never used again
    /\ closed \subseteq closed'
    /\ (client' # NoHandle /\ \A c \in DOMAIN closing : closing'[c] = NoHandle)
            => client' \notin closed'

\* C10: with operations and close() calls run one after another, no handle
\* exists after construction, the first operation creates one, later operations
\* reuse it, close() closes it and leaves none, close() with none held does
\* nothing, and the first operation after a close() creates a fresh handle.
C10_HandleLifecycle ==
    /\ client = NoHandle /\ created = 0 /\ closed = {}
    /\ [][C10_Step]_vars

\* C10 witness: the first handle was closed, a second one was created by the
\* next operation and the operation after that reused it
C10_Witness ==
    /\ created = 2 /\ client = 2 /\ closed = {1}
    /\ lastEvent = "reused"
    /\ \E t \in Tasks : inv[t].pc = "waiting" /\ inv[t].request.handle = 2

\* the JSON body of the last request task t sent
SentBody(t) == inv[t].request.json.v

\* what one step may do to the body an invocation sends
C11_Step ==
    \A t \in Tasks :
        (inv[t].pc # "idle" /\ inv'[t].pc # "idle")
            => inv'[t].request.json = inv[t].request.json

\* C11: every request body sent, on the first attempt and on every retry of
\* the four operations that go through _request and on the single call of
\* get_pricing, carries apikey and secretapikey with exactly the configured
\* keys; the body of a renew request carries years as well; and the body stays
\* the same over all the attempts of one invocation.
C11_AuthInEveryBody ==
    /\ [](\A t \in Tasks :
            inv[t].pc # "idle"
                => /\ inv[t].request.json # None
                   /\ SentBody(t).apikey = settings.api_key
                   /\ SentBody(t).secretapikey = settings.secret_key
                   /\ inv[t].call.op = "renew_domain"
                        => SentBody(t).years = Some(inv[t].call.years))
    /\ [][C11_Step]_vars

\* C11 witness: the third attempt of a renewal for three years has been sent
C11_Witness ==
    \E t \in Tasks :
        /\ inv[t].pc = "waiting" /\ inv[t].call.op = "renew_domain"
        /\ inv[t].attempt = 2 /\ inv[t].calls = 3
        /\ SentBody(t) = [apikey |-> ApiKey, secretapikey |-> SecretKey, years |-> Some(3)]

\* C11 witness: get_pricing has sent its call
C11_WitnessPricing ==
    \E t \in Tasks :
        /\ inv[t].pc = "waiting" /\ inv[t].call.op = "get_pricing"
        /\ SentBody(t).apikey = ApiKey /\ SentBody(t).secretapikey = SecretKey

\* an operation can start: the model has a handle left to give it
HandleAvailable == client # NoHandle \/ created < MaxHandles

\* a step of another invocation taken while t sleeps leaves t in the same
\* sleep, and the delay the other may go to sleep for is that of its own
\* attempt counter
C12_Step ==
    \A t \in Tasks : \A u \in Tasks \ {t} :
        (inv[t].pc = "sleeping" /\ inv'[u].pc # inv[u].pc)
            => /\ inv'[t].pc = "sleeping"
               /\ inv'[t].sleeps = inv[t].sleeps
               /\ inv'[t].calls = inv[t].calls
               /\ inv'[u].sleeps \in {<<>>, inv[u].sleeps}
                    \cup {Append(inv[u].sleeps, BackoffDelay(inv[u].attempt))}

\* C12: while one invocation is in a backoff sleep, every step of any other
\* invocation on the same client stays possible: it can start and send its
\* request, receive any answer, and hand its result back, and the sleeper
\* itself can wake; the sleeper holds nothing the other waits for, the
\* other's steps neither end nor lengthen the sleep (`within` records an
\* invocation that ran from its start inside another's sleep).
C12_SleepBlocksNoOne ==
    /\ [](\A t \in Tasks : \A u \in Tasks \ {t} :
            inv[t].pc = "sleeping"
                => /\ (inv[u].pc = "idle" /\ HandleAvailable)
                        => \A call \in ConcurrentCalls : ENABLED Invoke(u, call)
                   /\ inv[u].pc = "waiting"
                        => \A resp \in ConcurrentResponses :
                              ENABLED Complete(u, resp) \/ ENABLED Backoff(u, resp)
                   /\ inv[u].pc = "done" => ENABLED Deliver(u)
                   /\ ENABLED Retry(t)
                   /\ t \in inv[u].within => inv[u].pc # "idle")
    /\ [][C12_Step]_vars

\* C12 witness: the second invocation started after the first went to sleep,
\* got its answer and returned a success, and the first is still in that sleep
C12_Witness ==
    /\ inv[1].pc = "sleeping" /\ inv[1].attempt = 0
    /\ inv[2].pc = "done" /\ 1 \in inv[2].within
    /\ inv[2].calls = 1
    /\ inv[2].result.k = "return" /\ inv[2].result.value.success

\* the answer is a 2xx response whose envelope says SUCCESS
IsSuccessAnswer(resp) == IsParsed2xx(resp) /\ SaysSuccess(resp)

\* an invocation that has ended changes no more until its result is taken; an
\* invocation starts with its own counter at 0 whatever the others' counters
\* are; and a step that advances one invocation's counter, calls or sleeps
\* leaves those of every other invocation as they were
C13_Step ==
    /\ \A t \in Tasks :
        inv[t].pc = "done"
            => \/ inv'[t].pc = "idle"
               \/ /\ inv'[t].pc = "done"
                  /\ inv'[t].calls = inv[t].calls
                  /\ inv'[t].attempt = inv[t].attempt
                  /\ inv'[t].sleeps = inv[t].sleeps
    /\ \A t \in Tasks :
        (inv[t].pc = "idle" /\ inv'[t].pc # "idle")
            => (inv'[t].attempt = 0 /\ inv'[t].calls <= 1 /\ inv'[t].sleeps = <<>>)
    /\ \A t \in Tasks : \A u \in Tasks \ {t} :
        (inv'[t].attempt # inv[t].attempt \/ inv'[t].calls # inv[t].calls
            \/ inv'[t].sleeps # inv[t].sleeps)
            => /\ inv'[u].attempt = inv[u].attempt
               /\ inv'[u].calls = inv[u].calls
               /\ inv'[u].sleeps = inv[u].sleeps

\* C13: whatever the order of transport errors and non-2xx statuses among the
\* attempts, an authenticated request makes at most max_retries + 1 remote
\* calls: each failure of either kind uses up one value of the invocation's own
\* attempt counter (one call per attempt started, one sleep per failed attempt
\* that was retried), a counter no concurrent invocation reads or advances;
\* and the first attempt answered by a SUCCESS envelope ends the invocation,
\* with no call and no sleep after it.
C13_CallsBounded ==
    /\ [](\A t \in Tasks :
            (Retrying(t) /\ inv[t].pc # "idle")
                => /\ inv[t].calls <= settings.max_retries + 1
                   /\ inv[t].calls <= inv[t].attempt + 1
                   /\ inv[t].pc \in {"waiting", "sleeping"}
                        => inv[t].calls = inv[t].attempt + 1
                   /\ Len(inv[t].sleeps) <= inv[t].calls
                   /\ inv[t].pc = "waiting" => Len(inv[t].sleeps) = inv[t].calls - 1
                   /\ Len(inv[t].sleeps) <= settings.max_retries
                   /\ (inv[t].last # NoResponse /\ IsSuccessAnswer(inv[t].last))
                        => inv[t].pc = "done")
    /\ [][C13_Step]_vars

\* C13 witness: with max_retries = 1 and two invocations interleaved, one met
\* an HTTP 503 on its first attempt and a transport error on its second and
\* last, and gave up after max_retries + 1 = 2 calls; the other met a transport
\* error first and a SUCCESS envelope on its second attempt; each counted its
\* own attempts
C13_Witness ==
    \E t \in Tasks : \E u \in Tasks \ {t} :
        /\ settings.max_retries = 1
        /\ Retrying(t) /\ inv[t].pc = "done"
        /\ inv[t].first = [seen |-> TRUE, status |-> Some(503)]
        /\ inv[t].last.kind = "transport"
        /\ inv[t].attempt = 1 /\ inv[t].calls = 2 /\ inv[t].sleeps = <<500>>
        /\ RaisedPorkbunError(t)
        /\ Retrying(u) /\ inv[u].pc = "done"
        /\ inv[u].first = [seen |-> TRUE, status |-> None]
        /\ IsSuccessAnswer(inv[u].last)
        /\ inv[u].attempt = 1 /\ inv[u].calls = 2 /\ inv[u].sleeps = <<500>>

\* C14: a body that _request returns is the body of the last attempt's answer,
\* a 2xx answer whose status is SUCCESS in some letter case; list_domains,
\* get_domain_info, get_auth_code and renew_domain return a value only from
\* such a body, a body whose status is missing, empty or anything else makes
\* them raise, and get_pricing builds a result only from a SUCCESS body too.
C14_OnlySuccessBodyReturned ==
    \A t \in Tasks :
        inv[t].pc = "done"
            => /\ inv[t].returned # None
                    => /\ Retrying(t)
                       /\ IsSuccessAnswer(inv[t].last)
                       /\ inv[t].returned.v = inv[t].last.body
               /\ (Retrying(t) /\ inv[t].outcome.k = "return") => inv[t].returned # None
               /\ NonSuccessEnvelope(inv[t].last)
                    => (inv[t].returned = None /\ inv[t].outcome.k = "raise")
               /\ (inv[t].call.op = "get_pricing" /\ inv[t].outcome.k = "return")
                    => IsSuccessAnswer(inv[t].last)

\* C14 witness: after a failed attempt, the answer "success" in lower case
\* was returned to the operation
C14_Witness ==
    \E t \in Tasks :
        /\ inv[t].pc = "done" /\ Retrying(t) /\ inv[t].attempt >= 1
        /\ IsSuccessAnswer(inv[t].last)
        /\ inv[t].returned = Some(inv[t].last.body)
        /\ inv[t].last.body.status = JStr(<<"s", "u", "c", "c", "e", "s", "s">>)
        /\ inv[t].outcome.k = "return"

\* C14 witness: get_pricing built a result
C14_WitnessPricing ==
    \E t \in Tasks :
        /\ inv[t].pc = "done" /\ inv[t].call.op = "get_pricing"
        /\ inv[t].outcome.k = "return"
        /\ IsSuccessAnswer(inv[t].last)

\* C15: in the ToolResponse of each of the five tools, success is false exactly
\* when the client operation raised; a success carries data and no error, a
\* failure carries no data and, as error, the string form of the error raised;
\* and next_steps is a list with at least one entry in both.
C15_ResponseShape ==
    \A t \in Tasks :
        (inv[t].pc = "done" /\ inv[t].result.k = "return")
            => /\ Response(t).success = (inv[t].outcome.k = "return")
               /\ Response(t).success
                    => (Response(t).error = None /\ Response(t).data # None)
               /\ ~Response(t).success
                    => /\ Response(t).data = None
                       /\ Response(t).error = Some(StrOfError(inv[t].outcome.exc))
               /\ Response(t).next_steps # None
               /\ Len(Response(t).next_steps.v) >= 1

\* C15 witness: a failure whose error is the text of the exhausted-retries error
C15_Witness ==
    \E t \in Tasks :
        /\ inv[t].pc = "done" /\ inv[t].call.op = "renew_domain"
        /\ inv[t].last.kind = "http" /\ inv[t].last.code = 503
        /\ inv[t].result.k = "return"
        /\ ~Response(t).success /\ Response(t).data = None
        /\ Response(t).error
             = Some(<<"HTTP ", "503", ": ", "Service Unavailable">>)
        /\ Len(Response(t).next_steps.v) = 3

\* C15 witness: a success with data and no error
C15_WitnessSuccess ==
    \E t \in Tasks :
        /\ inv[t].pc = "done" /\ inv[t].call.op = "get_auth_code"
        /\ inv[t].result.k = "return"
        /\ Response(t).success /\ Response(t).error = None
        /\ Response(t).data = Some([domain |-> <<"example.com">>, auth_code |-> <<"EPP-5f2a">>])
        /\ Len(Response(t).next_steps.v) = 3

\* the years a renewal may be made for, as the docstrings of renew_domain give
\* them: 1-10
DocumentedYears == 1..10

\* C16 as stated: the years field of every renew request sent is the value the
\* caller passed to renew_domain and lies between 1 and 10; no renew request
\* with years outside 1..10 is sent.
C16_YearsSentInRange ==
    \A t \in Tasks :
        (inv[t].call.op = "renew_domain" /\ inv[t].pc # "idle")
            => /\ SentBody(t).years = Some(inv[t].call.years)
               /\ SentBody(t).years.v \in DocumentedYears

\* C17 as stated: one renew_domain invocation makes the remote API apply at
\* most one renewal, for every max_retries and every pattern of failures, a
\* transport failure after the remote API applied the request included.
C17_AtMostOneRenewal ==
    \A t \in Tasks :
        inv[t].call.op = "renew_domain" => inv[t].applied <= 1

\* the handles constructed so far
Handles == 1..created

\* C18 as stated: under every interleaving of operations and close() calls,
\* every handle ever created is the one the client references or one whose
\* close has been started; none is dropped without being closed.
C18_NoHandleDropped ==
    \A h \in Handles : h = client \/ h \in closed

\* a step in which task t attempts a send: the first client.request /
\* client.post of an invocation, or the one of a retry after a backoff sleep
Attempts(t) == inv[t].pc \in {"idle", "sleeping"} /\ inv'[t].pc \in {"waiting", "done"}

\* the handle the attempt is made on has not begun to close
C19_Step ==
    \A t \in Tasks : Attempts(t) => inv'[t].handle \notin closed

\* C19 as stated: under every interleaving of operations with close(), no
\* request attempt is made on a handle whose close has already started, be it
\* by an operation that obtains the handle while close() is suspended before
\* it clears its reference, or by a retry after a sleep during which close()
\* ran.
C19_NoSendOnClosedHandle == [][C19_Step]_vars

====
